---------------------------- MODULE Spec2Model ----------------------------
(***************************************************************************)
(* CipherMind (src/src/main.rs): a code-breaking game.                     *)
(*                                                                         *)
(* A char is modelled by its Unicode code point, a Vec<char> by the        *)
(* sequence of its chars, and a str or String by the sequence of the       *)
(* bytes of its UTF-8 encoding.                                            *)
(*                                                                         *)
(* Code points used below:                                                 *)
(*   R 82  G 71  B 66  Y 89  M 77  C 67   (upper-case colours)             *)
(*   r 114 g 103 b 98  y 121 x 120 n 110 e 101 s 115 q 113 u 117 i 105     *)
(*   t 116 Q 81  U 85  I 73  T 84  E 69  S 83  space 32  LF 10             *)
(*   U+00E9 233 (e acute, 2 bytes, upper-case U+00C9 201)                  *)
(*   U+00DF 223 (sharp s, 2 bytes, upper-case "SS" 83 83)                  *)
(*   U+017F 383 (long s, 2 bytes, upper-case "S" 83)                       *)
(***************************************************************************)
EXTENDS Integers, Sequences, FiniteSets

CODE_LENGTH == 4
MAX_ATTEMPTS == 10
COLORS == <<82, 71, 66, 89, 77, 67>>

(* Bounds of the model. *)
MaxInputLen == 5
ExtraRounds == 1

VARIABLES
    secret_code,  \* Game.secret_code
    attempts,     \* Game.attempts
    won,          \* main's local `won`
    pc,           \* where main is: "prompt", "play_again", "done", "panicked"
    outcome,      \* what main reported for the session: "none", "won", "lost", "abandoned"
    revealed,     \* the code printed by reveal_code in this session, <<>> if none
    input,        \* the str handed to validate_guess (validator specifications)
    result,       \* the Result of the last validate_guess call
    guess,        \* the Vec<char> handed to get_feedback by the last step, <<>> if none
    feedback,     \* <<f>> for the Feedback f scored by the last step, <<>> if none
    accepted,     \* history: the guesses of the session handed to play_round
    exact_scored  \* history: those of them that scored CODE_LENGTH exact matches

vars == <<secret_code, attempts, won, pc, outcome, revealed, input, result, guess,
          feedback, accepted, exact_scored>>

-----------------------------------------------------------------------------
(* chars and strs *)

Range(s) == {s[i] : i \in 1..Len(s)}

(* <[T]>::contains *)
Contains(s, c) == \E i \in 1..Len(s) : s[i] = c

(* char::encode_utf8 *)
encode_utf8(c) ==
    IF c < 128 THEN <<c>>
    ELSE IF c < 2048 THEN <<192 + (c \div 64), 128 + (c % 64)>>
    ELSE IF c < 65536
         THEN <<224 + (c \div 4096), 128 + ((c \div 64) % 64), 128 + (c % 64)>>
         ELSE <<240 + (c \div 262144), 128 + ((c \div 4096) % 64),
                128 + ((c \div 64) % 64), 128 + (c % 64)>>

(* String::from_iter over chars: the encodings, concatenated *)
RECURSIVE string_from_chars(_)
string_from_chars(cs) ==
    IF cs = <<>> THEN <<>>
    ELSE encode_utf8(Head(cs)) \o string_from_chars(Tail(cs))

(* the width of the encoded char that starts with byte b *)
utf8_char_width(b) ==
    IF b < 128 THEN 1
    ELSE IF b < 224 THEN 2
    ELSE IF b < 240 THEN 3
    ELSE 4

(* the char encoded by the bytes bs *)
decode_utf8(bs) ==
    IF Len(bs) = 1 THEN bs[1]
    ELSE IF Len(bs) = 2 THEN (bs[1] - 192) * 64 + (bs[2] - 128)
    ELSE IF Len(bs) = 3
         THEN (bs[1] - 224) * 4096 + (bs[2] - 128) * 64 + (bs[3] - 128)
         ELSE (bs[1] - 240) * 262144 + (bs[2] - 128) * 4096
              + (bs[3] - 128) * 64 + (bs[4] - 128)

(* str::chars, collected *)
RECURSIVE chars(_)
chars(s) ==
    IF s = <<>> THEN <<>>
    ELSE LET w == utf8_char_width(s[1])
         IN  <<decode_utf8(SubSeq(s, 1, w))>> \o chars(SubSeq(s, w + 1, Len(s)))

(* str::len: the length in bytes *)
str_len(s) == Len(s)

(* char::to_uppercase, for the chars of the model: a sequence of chars *)
char_to_uppercase(c) ==
    IF c >= 97 /\ c <= 122 THEN <<c - 32>>
    ELSE IF c = 233 THEN <<201>>
    ELSE IF c = 223 THEN <<83, 83>>
    ELSE IF c = 383 THEN <<83>>
    ELSE <<c>>

RECURSIVE chars_to_uppercase(_)
chars_to_uppercase(cs) ==
    IF cs = <<>> THEN <<>>
    ELSE char_to_uppercase(Head(cs)) \o chars_to_uppercase(Tail(cs))

(* str::to_uppercase: the upper-case mappings of the chars, as a String *)
to_uppercase(s) == string_from_chars(chars_to_uppercase(chars(s)))

(* char::to_lowercase, for the chars of the model *)
char_to_lowercase(c) ==
    IF c >= 65 /\ c <= 90 THEN c + 32
    ELSE IF c = 201 THEN 233
    ELSE c

(* str::to_lowercase *)
to_lowercase(s) ==
    LET cs == chars(s)
    IN  string_from_chars([i \in 1..Len(cs) |-> char_to_lowercase(cs[i])])

(* u8::to_ascii_lowercase *)
to_ascii_lowercase(b) == IF b >= 65 /\ b <= 90 THEN b + 32 ELSE b

(* a comparison that does not ignore the case *)
eq_case_sensitive(a, b) == a = b

(* str::eq_ignore_ascii_case: byte by byte *)
eq_ignore_ascii_case(a, b) ==
    /\ Len(a) = Len(b)
    /\ \A i \in 1..Len(a) : to_ascii_lowercase(a[i]) = to_ascii_lowercase(b[i])

(* char::is_whitespace: the White_Space code points *)
is_whitespace(c) ==
    \/ c \in {9, 10, 11, 12, 13, 32, 133, 160, 5760, 8232, 8233, 8239, 8287, 12288}
    \/ (c >= 8192 /\ c <= 8202)

RECURSIVE trim_start(_)
trim_start(cs) ==
    IF cs # <<>> /\ is_whitespace(Head(cs)) THEN trim_start(Tail(cs)) ELSE cs

RECURSIVE trim_end(_)
trim_end(cs) ==
    IF cs # <<>> /\ is_whitespace(cs[Len(cs)])
    THEN trim_end(SubSeq(cs, 1, Len(cs) - 1))
    ELSE cs

(* str::trim: the str without its leading and trailing whitespace *)
trim(s) == string_from_chars(trim_end(trim_start(chars(s))))

-----------------------------------------------------------------------------
(* Game::validate_guess *)

Ok(code) == [kind |-> "ok", code |-> code, ch |-> 0]
ErrLength == [kind |-> "err_length", code |-> <<>>, ch |-> 0]
ErrColor(c) == [kind |-> "err_color", code |-> <<>>, ch |-> c]
NoResult == [kind |-> "none", code |-> <<>>, ch |-> 0]

(* the first char of s that is not in COLORS, -1 if there is none *)
RECURSIVE first_invalid(_)
first_invalid(s) ==
    IF s = <<>> THEN -1
    ELSE IF ~Contains(COLORS, Head(s)) THEN Head(s)
    ELSE first_invalid(Tail(s))

(* validate_guess without the upper-casing *)
validate_guess_no_uppercase(g) ==
    IF str_len(g) # CODE_LENGTH THEN ErrLength
    ELSE LET guess_chars == chars(g)
             bad == first_invalid(guess_chars)
         IN  IF bad # -1 THEN ErrColor(bad) ELSE Ok(guess_chars)

(* validate_guess checking the upper-cased chars but returning the chars as typed *)
validate_guess_returns_typed(g) ==
    IF str_len(g) # CODE_LENGTH THEN ErrLength
    ELSE LET bad == first_invalid(chars(to_uppercase(g)))
         IN  IF bad # -1 THEN ErrColor(bad) ELSE Ok(chars(g))

validate_guess(g) ==
    IF str_len(g) # CODE_LENGTH THEN ErrLength
    ELSE LET guess_upper == chars(to_uppercase(g))
             bad == first_invalid(guess_upper)
         IN  IF bad # -1 THEN ErrColor(bad) ELSE Ok(guess_upper)

-----------------------------------------------------------------------------
(* Game::get_feedback *)

Feedback(e, c) == [panic |-> FALSE, exact_matches |-> e, color_matches |-> c]

(* an index out of bounds: the call panics and returns nothing *)
Panic == [panic |-> TRUE, exact_matches |-> 0, color_matches |-> 0]

(* First pass, from position i on: exact matches counted, the other      *)
(* positions pushed on secret_remaining and guess_remaining.             *)
RECURSIVE first_pass(_, _, _, _)
first_pass(secret, g, i, st) ==
    IF i > CODE_LENGTH THEN st
    ELSE IF i > Len(g) \/ i > Len(secret) THEN [st EXCEPT !.panic = TRUE]
    ELSE IF g[i] = secret[i]
         THEN first_pass(secret, g, i + 1,
                         [st EXCEPT !.exact_matches = @ + 1])
         ELSE first_pass(secret, g, i + 1,
                         [st EXCEPT !.secret_remaining = Append(@, secret[i]),
                                    !.guess_remaining = Append(@, g[i])])

(* Iterator::position: the first index of c in s, 0 for None *)
RECURSIVE position(_, _, _)
position(s, c, i) ==
    IF i > Len(s) THEN 0
    ELSE IF s[i] = c THEN i
    ELSE position(s, c, i + 1)

(* Vec::remove *)
remove(s, pos) == SubSeq(s, 1, pos - 1) \o SubSeq(s, pos + 1, Len(s))

(* Second pass, from the k-th leftover guess symbol on. *)
RECURSIVE second_pass(_, _, _, _)
second_pass(guess_remaining, k, secret_remaining, color_matches) ==
    IF k > Len(guess_remaining) THEN color_matches
    ELSE LET pos == position(secret_remaining, guess_remaining[k], 1)
         IN  IF pos # 0
             THEN second_pass(guess_remaining, k + 1,
                              remove(secret_remaining, pos), color_matches + 1)
             ELSE second_pass(guess_remaining, k + 1,
                              secret_remaining, color_matches)

(* the second pass without the removal of the matched secret symbol *)
RECURSIVE second_pass_reusing(_, _, _, _)
second_pass_reusing(guess_remaining, k, secret_remaining, color_matches) ==
    IF k > Len(guess_remaining) THEN color_matches
    ELSE second_pass_reusing(guess_remaining, k + 1, secret_remaining,
             IF position(secret_remaining, guess_remaining[k], 1) # 0
             THEN color_matches + 1 ELSE color_matches)

(* get_feedback letting one secret symbol match several guess symbols *)
get_feedback_reusing(secret, g) ==
    LET st == first_pass(secret, g, 1,
                         [panic |-> FALSE, exact_matches |-> 0,
                          secret_remaining |-> <<>>, guess_remaining |-> <<>>])
    IN  IF st.panic THEN Panic
        ELSE Feedback(st.exact_matches,
                      second_pass_reusing(st.guess_remaining, 1, st.secret_remaining, 0))

(* get_feedback running the second pass over all positions, the exact ones too *)
get_feedback_keeping_exact(secret, g) ==
    LET st == first_pass(secret, g, 1,
                         [panic |-> FALSE, exact_matches |-> 0,
                          secret_remaining |-> <<>>, guess_remaining |-> <<>>])
    IN  IF st.panic THEN Panic
        ELSE Feedback(st.exact_matches, second_pass(g, 1, secret, 0))

get_feedback(secret, g) ==
    LET st == first_pass(secret, g, 1,
                         [panic |-> FALSE, exact_matches |-> 0,
                          secret_remaining |-> <<>>, guess_remaining |-> <<>>])
    IN  IF st.panic THEN Panic
        ELSE Feedback(st.exact_matches,
                      second_pass(st.guess_remaining, 1, st.secret_remaining, 0))

-----------------------------------------------------------------------------
(* Game::play_round: the fields of the Game after the call, the Feedback *)
(* scored and the value returned.                                        *)

(* play_round reporting a win only while attempts remain *)
play_round_limit_first(secret, n, g) ==
    LET fb == get_feedback(secret, g)
    IN  [secret_code |-> secret,
         attempts |-> n + 1,
         feedback |-> fb,
         panic |-> fb.panic,
         ret |-> ~fb.panic /\ fb.exact_matches = CODE_LENGTH /\ n + 1 < MAX_ATTEMPTS]

(* play_round counting the attempt twice *)
play_round_counting_twice(secret, n, g) ==
    LET fb == get_feedback(secret, g)
    IN  [secret_code |-> secret,
         attempts |-> n + 2,
         feedback |-> fb,
         panic |-> fb.panic,
         ret |-> ~fb.panic /\ fb.exact_matches = CODE_LENGTH]

(* play_round leaving in secret_code the symbols the first pass left over *)
play_round_consuming(secret, n, g) ==
    LET fb == get_feedback(secret, g)
    IN  [secret_code |->
             first_pass(secret, g, 1,
                        [panic |-> FALSE, exact_matches |-> 0,
                         secret_remaining |-> <<>>,
                         guess_remaining |-> <<>>]).secret_remaining,
         attempts |-> n + 1,
         feedback |-> fb,
         panic |-> fb.panic,
         ret |-> ~fb.panic /\ fb.exact_matches = CODE_LENGTH]

play_round(secret, n, g) ==
    LET fb == get_feedback(secret, g)
    IN  [secret_code |-> secret,
         attempts |-> n + 1,
         feedback |-> fb,
         panic |-> fb.panic,
         ret |-> ~fb.panic /\ fb.exact_matches = CODE_LENGTH]

-----------------------------------------------------------------------------
(* The sets the inputs are drawn from. *)

SeqsOfLen(S, n) == [1..n -> S]

SeqsUpTo(S, n) == UNION {SeqsOfLen(S, k) : k \in 0..n}

(* Game::new: CODE_LENGTH symbols, each chosen among COLORS *)
Codes == SeqsOfLen(Range(COLORS), CODE_LENGTH)

(* the secrets of the session specification: codes over R and G *)
SecretSymbols == {82, 71}

Secrets == SeqsOfLen(SecretSymbols, CODE_LENGTH)

(* chars typed at the guess prompt: R G x *)
GuessChars == {82, 71, 120}

Quit == <<113, 117, 105, 116>>

(* other lines typed at the guess prompt: quit, QUIT, Quit, "rggr",      *)
(* " RGRG ", "RG" U+00E9, "RGR" U+00E9, "  "                              *)
OtherGuessLines ==
    {<<113, 117, 105, 116>>, <<81, 85, 73, 84>>, <<81, 117, 105, 116>>,
     <<114, 103, 103, 114>>, <<32, 82, 71, 82, 71, 32>>,
     <<82, 71, 233>>, <<82, 71, 82, 233>>, <<32, 32>>}

(* lines read at the guess prompt, with the line feed read_line keeps *)
GuessLines ==
    {string_from_chars(cs \o <<10>>) :
        cs \in SeqsUpTo(GuessChars, MaxInputLen) \cup OtherGuessLines}

(* lines read at the play-again prompt: y, Y, yes, YES, n, yess, the empty line *)
AnswerLines ==
    {string_from_chars(cs \o <<10>>) :
        cs \in {<<121>>, <<89>>, <<121, 101, 115>>, <<89, 69, 83>>,
                <<110>>, <<121, 101, 115, 115>>, <<>>}}

(* strs handed to validate_guess in the validator specification, over   *)
(* R G b y x U+00E9 U+00DF U+017F                                        *)
ValidateChars == {82, 71, 98, 121, 120, 233, 223, 383}

ValidateInputs ==
    {string_from_chars(cs) : cs \in SeqsUpTo(ValidateChars, MaxInputLen)}

-----------------------------------------------------------------------------
(* main: one session after another *)

Init ==
    /\ secret_code \in Secrets
    /\ attempts = 0
    /\ won = FALSE
    /\ pc = "prompt"
    /\ outcome = "none"
    /\ revealed = <<>>
    /\ input = <<>>
    /\ result = NoResult
    /\ guess = <<>>
    /\ feedback = <<>>
    /\ accepted = 0
    /\ exact_scored = 0

(* the guessing loop stopping one attempt early *)
loop_continues_off_by_one(n, w) == n < MAX_ATTEMPTS - 1 /\ ~w

(* the guessing loop going on after a win *)
loop_continues_after_win(n, w) == n < MAX_ATTEMPTS

(* the (guess, feedback) pairs the Game keeps: struct Game holds secret_code *)
(* and attempts only, play_round drops the guess and the Feedback it scored  *)
history == <<>>

(* the condition of the guessing loop *)
loop_continues(n, w) == n < MAX_ATTEMPTS /\ ~w

(* "quit" was entered: the code is revealed and main returns. *)
Abandon ==
    /\ revealed' = secret_code
    /\ outcome' = "abandoned"
    /\ pc' = "done"
    /\ result' = NoResult
    /\ guess' = <<>>
    /\ feedback' = <<>>
    /\ UNCHANGED <<secret_code, attempts, won, accepted, exact_scored>>

(* a rejected guess counted as an attempt *)
RejectCounting ==
    /\ pc' = "prompt"
    /\ guess' = <<>>
    /\ feedback' = <<>>
    /\ attempts' = attempts + 1
    /\ UNCHANGED <<secret_code, won, outcome, revealed, accepted, exact_scored>>

(* validate_guess returned Err: the error is printed, the loop continues. *)
Reject ==
    /\ pc' = "prompt"
    /\ guess' = <<>>
    /\ feedback' = <<>>
    /\ UNCHANGED <<secret_code, attempts, won, outcome, revealed, accepted, exact_scored>>

(* the Ok branch without the call of play_round *)
AcceptNotPlayed(code) ==
    /\ pc' = "prompt"
    /\ guess' = code
    /\ feedback' = <<>>
    /\ UNCHANGED <<secret_code, attempts, won, outcome, revealed, accepted, exact_scored>>

(* validate_guess returned Ok(code): the round is played, and when the  *)
(* loop ends the result of the session is shown.                        *)
Accept(code) ==
    \E round \in {play_round(secret_code, attempts, code)} :
        /\ guess' = code
        /\ attempts' = round.attempts
        /\ accepted' = accepted + 1
        /\ secret_code' = round.secret_code
        /\ IF round.panic
           THEN /\ pc' = "panicked"
                /\ feedback' = <<>>
                /\ UNCHANGED <<won, outcome, revealed, exact_scored>>
           ELSE /\ feedback' = <<round.feedback>>
                /\ exact_scored' =
                       IF round.feedback.exact_matches = CODE_LENGTH
                       THEN exact_scored + 1 ELSE exact_scored
                /\ won' = round.ret
                /\ IF loop_continues(round.attempts, round.ret)
                   THEN /\ pc' = "prompt"
                        /\ UNCHANGED <<outcome, revealed>>
                   ELSE /\ pc' = "play_again"
                        /\ outcome' = IF round.ret THEN "won" ELSE "lost"
                        /\ revealed' = IF round.ret THEN <<>> ELSE secret_code

(* One pass of the guessing loop on the line read at the prompt. *)
GuessStep(line) ==
    /\ pc = "prompt"
    /\ \E inp \in {trim(line)} :
       IF eq_ignore_ascii_case(inp, Quit)
       THEN Abandon
       ELSE \E r \in {validate_guess(inp)} :
            /\ result' = r
            /\ IF r.kind = "ok" THEN Accept(r.code) ELSE Reject

(* One pass of the guessing loop; the line is dropped when the pass ends. *)
ReadGuess(line) ==
    /\ GuessStep(line)
    /\ input' = <<>>

(* One pass of the guessing loop; the trimmed line is kept in input. *)
ReadGuessKept(line) ==
    /\ GuessStep(line)
    /\ input' = trim(line)

(* play_again: the answer is read; "y" or "yes" starts a new session. *)
(* play_again without the lower-casing *)
play_again_case_sensitive(line) == trim(line) \in {<<121>>, <<121, 101, 115>>}

play_again(line) == to_lowercase(trim(line)) \in {<<121>>, <<121, 101, 115>>}

AnswerStep(line) ==
    /\ pc = "play_again"
    /\ IF play_again(line)
       THEN /\ secret_code' \in Secrets
            /\ attempts' = 0
            /\ won' = FALSE
            /\ pc' = "prompt"
            /\ outcome' = "none"
            /\ revealed' = <<>>
            /\ result' = NoResult
            /\ guess' = <<>>
            /\ feedback' = <<>>
            /\ accepted' = 0
            /\ exact_scored' = 0
       ELSE /\ pc' = "done"
            /\ UNCHANGED <<secret_code, attempts, won, outcome, revealed,
                           result, guess, feedback, accepted, exact_scored>>

(* The answer to "Play again?" is read; the line is dropped. *)
PlayAgain(line) ==
    /\ AnswerStep(line)
    /\ UNCHANGED input

(* The answer to "Play again?" is read; the line is kept in input. *)
PlayAgainKept(line) ==
    /\ AnswerStep(line)
    /\ input' = line

Next ==
    \/ pc = "prompt" /\ \E line \in GuessLines : ReadGuess(line)
    \/ pc = "play_again" /\ \E line \in AnswerLines : PlayAgain(line)

Spec == Init /\ [][Next]_vars

-----------------------------------------------------------------------------
(* main on a small set of typed lines, the line read kept in the state. *)

(* lines typed at the guess prompt: the codes over R and G, and the other lines *)
TypedLines ==
    {string_from_chars(cs \o <<10>>) : cs \in Secrets \cup OtherGuessLines}

NextTyped ==
    \/ pc = "prompt" /\ \E line \in TypedLines : ReadGuessKept(line)
    \/ pc = "play_again" /\ \E line \in AnswerLines : PlayAgainKept(line)

SpecTyped == Init /\ [][NextTyped]_vars

(* A pass of the guessing loop on a line that is accepted, or on "quit". *)
Progress ==
    /\ pc = "prompt"
    /\ result'.kind \in {"ok", "none"}

(* The player does not enter rejected lines forever.  This is            *)
(* WF_vars(Progress): at the prompt "quit" can always be entered, so     *)
(* ENABLED <<Progress>>_vars is pc = "prompt", written out here.         *)
SpecTypedFair ==
    SpecTyped /\ ([]<>(pc # "prompt") \/ []<><<Progress>>_vars)

(* The player answers every prompt, with rejected lines or not: this is  *)
(* WF_vars(NextTyped), ENABLED <<NextTyped>>_vars being that main is at a *)
(* prompt.                                                               *)
SpecTypedAnyLine ==
    SpecTyped /\ ([]<>(pc \notin {"prompt", "play_again"}) \/ []<><<NextTyped>>_vars)

-----------------------------------------------------------------------------
(* The methods of Game called directly, as the tests call them, in any     *)
(* order and with any argument; play_round is called at most ExtraRounds   *)
(* times more than MAX_ATTEMPTS.                                           *)

(* the Vec<char> arguments: RRRR, RGRG, GGRR, RRR, RRRRR, RGRGG and the empty one *)
ApiGuesses ==
    {<<82, 82, 82, 82>>, <<82, 71, 82, 71>>, <<71, 71, 82, 82>>, <<82, 82, 82>>,
     <<82, 82, 82, 82, 82>>, <<82, 71, 82, 71, 71>>, <<>>}

(* the str arguments: "RGRG", "rgrg", "RGR", "RGxG" *)
ApiTexts ==
    {<<82, 71, 82, 71>>, <<114, 103, 114, 103>>, <<82, 71, 82>>, <<82, 71, 120, 71>>}

InitApi ==
    /\ secret_code \in Secrets
    /\ attempts = 0
    /\ won = FALSE
    /\ pc = "api"
    /\ outcome = "none"
    /\ revealed = <<>>
    /\ input = <<>>
    /\ result = NoResult
    /\ guess = <<>>
    /\ feedback = <<>>
    /\ accepted = 0
    /\ exact_scored = 0

ApiValidateGuess(text) ==
    /\ pc = "api"
    /\ result' = validate_guess(text)
    /\ UNCHANGED <<secret_code, attempts, won, pc, outcome, revealed, input, guess,
                   feedback, accepted, exact_scored>>

ApiGetFeedback(g) ==
    /\ pc = "api"
    /\ guess' = g
    /\ \E fb \in {get_feedback(secret_code, g)} :
          IF fb.panic
          THEN feedback' = <<>> /\ pc' = "panicked"
          ELSE feedback' = <<fb>> /\ pc' = pc
    /\ UNCHANGED <<secret_code, attempts, won, outcome, revealed, input, result,
                   accepted, exact_scored>>

ApiPlayRound(g) ==
    /\ pc = "api"
    /\ attempts < MAX_ATTEMPTS + ExtraRounds
    /\ guess' = g
    /\ accepted' = accepted + 1
    /\ \E round \in {play_round(secret_code, attempts, g)} :
          /\ secret_code' = round.secret_code
          /\ attempts' = round.attempts
          /\ IF round.panic
             THEN /\ feedback' = <<>>
                  /\ pc' = "panicked"
                  /\ UNCHANGED <<won, exact_scored>>
             ELSE /\ feedback' = <<round.feedback>>
                  /\ pc' = pc
                  /\ won' = round.ret
                  /\ exact_scored' =
                         IF round.feedback.exact_matches = CODE_LENGTH
                         THEN exact_scored + 1 ELSE exact_scored
    /\ UNCHANGED <<outcome, revealed, input, result>>

(* Game::reveal_code: the code printed *)
reveal_code(secret) == secret

ApiRevealCode ==
    /\ pc = "api"
    /\ revealed' = reveal_code(secret_code)
    /\ UNCHANGED <<secret_code, attempts, won, pc, outcome, input, result, guess,
                   feedback, accepted, exact_scored>>

NextApi ==
    \/ pc = "api" /\ \E text \in ApiTexts : ApiValidateGuess(text)
    \/ pc = "api" /\ \E g \in ApiGuesses : ApiGetFeedback(g)
    \/ pc = "api" /\ \E g \in ApiGuesses : ApiPlayRound(g)
    \/ ApiRevealCode

SpecApi == InitApi /\ [][NextApi]_vars

-----------------------------------------------------------------------------
(* The scoring engine alone: every secret scored against every guess. *)

InitScore ==
    /\ secret_code \in Codes
    /\ attempts = 0
    /\ won = FALSE
    /\ pc = "score"
    /\ outcome = "none"
    /\ revealed = <<>>
    /\ input = <<>>
    /\ result = NoResult
    /\ guess = <<>>
    /\ feedback = <<>>
    /\ accepted = 0
    /\ exact_scored = 0

Score(g) ==
    /\ pc = "score"
    /\ guess' = g
    /\ feedback' = <<get_feedback(secret_code, g)>>
    /\ pc' = "scored"
    /\ UNCHANGED <<secret_code, attempts, won, outcome, revealed, input, result,
                   accepted, exact_scored>>

NextScore == pc = "score" /\ \E g \in Codes : Score(g)

SpecScore == InitScore /\ [][NextScore]_vars

-----------------------------------------------------------------------------
(* The validator alone: validate_guess on every str of ValidateInputs. *)

InitValidate ==
    /\ secret_code \in {<<82, 71, 66, 89>>}
    /\ attempts = 0
    /\ won = FALSE
    /\ pc = "validate"
    /\ outcome = "none"
    /\ revealed = <<>>
    /\ input \in ValidateInputs
    /\ result = NoResult
    /\ guess = <<>>
    /\ feedback = <<>>
    /\ accepted = 0
    /\ exact_scored = 0

Validate ==
    /\ pc = "validate"
    /\ result' = validate_guess(input)
    /\ pc' = "validated"
    /\ UNCHANGED <<secret_code, attempts, won, outcome, revealed, input, guess,
                   feedback, accepted, exact_scored>>

NextValidate == Validate

SpecValidate == InitValidate /\ [][NextValidate]_vars

-----------------------------------------------------------------------------
(* The validator on rendered codes: every code of Codes is rendered to  *)
(* text, as it is or lower-cased, and validated.                        *)

InitRoundTrip ==
    /\ secret_code \in {<<82, 71, 66, 89>>}
    /\ attempts = 0
    /\ won = FALSE
    /\ pc = "render"
    /\ outcome = "none"
    /\ revealed = <<>>
    /\ input = <<>>
    /\ result = NoResult
    /\ guess \in Codes
    /\ feedback = <<>>
    /\ accepted = 0
    /\ exact_scored = 0

ValidateInput(text) ==
    /\ pc = "render"
    /\ input' = text
    /\ result' = validate_guess(text)
    /\ pc' = "validated"
    /\ UNCHANGED <<secret_code, attempts, won, outcome, revealed, guess,
                   feedback, accepted, exact_scored>>

ValidateRendered == ValidateInput(string_from_chars(guess))

ValidateLowered == ValidateInput(to_lowercase(string_from_chars(guess)))

NextRoundTrip == ValidateRendered \/ ValidateLowered

SpecRoundTrip == InitRoundTrip /\ [][NextRoundTrip]_vars

-----------------------------------------------------------------------------
(* The reference the scoring is compared with. *)

Min(a, b) == IF a < b THEN a ELSE b

(* the positions where guess and secret differ *)
NonExact(secret, g) == {i \in 1..CODE_LENGTH : g[i] # secret[i]}

(* the occurrences of symbol c of code among the positions P *)
Occurrences(code, P, c) == Cardinality({i \in P : code[i] = c})

RefExact(secret, g) == Cardinality({i \in 1..CODE_LENGTH : g[i] = secret[i]})

RECURSIVE RefColorFrom(_, _, _)
RefColorFrom(secret, g, k) ==
    IF k > Len(COLORS) THEN 0
    ELSE Min(Occurrences(secret, NonExact(secret, g), COLORS[k]),
             Occurrences(g, NonExact(secret, g), COLORS[k]))
         + RefColorFrom(secret, g, k + 1)

RefColor(secret, g) == RefColorFrom(secret, g, 1)

Scored == pc = "scored" /\ feedback # <<>>

-----------------------------------------------------------------------------
(* C1: scoring is symmetric: the feedback of guess B against secret A is *)
(* the feedback of guess A against secret B.                             *)
C1_Symmetry == Scored => feedback[1] = get_feedback(guess, secret_code)

(* a pair of different codes with repeated symbols, exact and color matches *)
C1_Witness ==
    /\ Scored
    /\ guess # secret_code
    /\ guess[1] = guess[2]
    /\ feedback[1].exact_matches > 0
    /\ feedback[1].color_matches > 0

(* C2: exact_matches + color_matches <= CODE_LENGTH for every secret and guess. *)
C2_Bound ==
    Scored =>
        /\ ~feedback[1].panic
        /\ feedback[1].exact_matches >= 0
        /\ feedback[1].color_matches >= 0
        /\ feedback[1].exact_matches + feedback[1].color_matches <= CODE_LENGTH

(* the bound is met with both counts positive *)
C2_Witness ==
    /\ Scored
    /\ feedback[1].exact_matches > 0
    /\ feedback[1].color_matches > 0
    /\ feedback[1].exact_matches + feedback[1].color_matches = CODE_LENGTH

(* C3: exact_matches is the number of agreeing positions and color_matches *)
(* the sum over the symbols of the smaller of the occurrences among the    *)
(* secret's and among the guess's non-exact positions.                     *)
C3_Reference ==
    Scored =>
        /\ feedback[1].exact_matches = RefExact(secret_code, guess)
        /\ feedback[1].color_matches = RefColor(secret_code, guess)

(* a leftover guess symbol occurs more often than in the leftover secret, *)
(* where it occurs too: one instance of it must stay unmatched            *)
C3_Witness ==
    /\ Scored
    /\ \E c \in Range(COLORS) :
          /\ Occurrences(secret_code, NonExact(secret_code, guess), c) > 0
          /\ Occurrences(guess, NonExact(secret_code, guess), c)
                > Occurrences(secret_code, NonExact(secret_code, guess), c)

(* C4: a code scored against itself gives (CODE_LENGTH, 0). *)
C4_SelfMatch ==
    (Scored /\ guess = secret_code) => feedback[1] = Feedback(CODE_LENGTH, 0)

(* a code with a repeated symbol scored against itself *)
C4_Witness ==
    /\ Scored
    /\ guess = secret_code
    /\ secret_code[1] = secret_code[3]

-----------------------------------------------------------------------------
(* C5: an accepted guess that scores CODE_LENGTH exact matches makes       *)
(* play_round return true and ends the session as Won, whatever the        *)
(* attempt counter is.                                                     *)
C5_Win ==
    (feedback # <<>> /\ feedback[1].exact_matches = CODE_LENGTH) =>
        /\ won
        /\ outcome = "won"
        /\ pc \in {"play_again", "done"}

(* the session is won by the MAX_ATTEMPTS-th accepted guess *)
C5_Witness ==
    /\ outcome = "won"
    /\ accepted = MAX_ATTEMPTS
    /\ attempts = MAX_ATTEMPTS
    /\ feedback[1].exact_matches = CODE_LENGTH

(* C6: a session is Lost exactly when MAX_ATTEMPTS guesses were accepted  *)
(* and none of them scored CODE_LENGTH exact matches.                     *)
C6_Loss ==
    (outcome = "lost") <=> (accepted = MAX_ATTEMPTS /\ exact_scored = 0)

(* a lost session, with its code revealed *)
C6_Witness ==
    /\ outcome = "lost"
    /\ accepted = MAX_ATTEMPTS
    /\ revealed = secret_code

(* C7: a guess validate_guess rejects leaves the attempt counter and the  *)
(* secret unchanged, the session in progress, and the player at the       *)
(* prompt.                                                                *)
C7_RejectChangesNothing ==
    [][(pc = "prompt" /\ result'.kind \in {"err_length", "err_color"}) =>
           /\ attempts' = attempts
           /\ secret_code' = secret_code
           /\ accepted' = accepted
           /\ won' = won
           /\ outcome' = outcome
           /\ outcome' = "none"
           /\ pc' = "prompt"]_vars

(* a guess with a symbol outside the alphabet was rejected after two accepted ones *)
C7_Witness ==
    /\ pc = "prompt"
    /\ result.kind = "err_color"
    /\ attempts = 2

-----------------------------------------------------------------------------
(* the upper-case mapping of char c is one char of COLORS *)
UpperInColors(c) ==
    /\ Len(char_to_uppercase(c)) = 1
    /\ Contains(COLORS, char_to_uppercase(c)[1])

Validated == pc = "validated"

(* C8: validate_guess succeeds exactly on the inputs of CODE_LENGTH        *)
(* symbols that are all in COLORS once upper-cased, and then returns the   *)
(* upper-cased symbols in the order of the input.                          *)
C8_ValidateIff ==
    Validated =>
        LET cs == chars(input) IN
        /\ (result.kind = "ok") <=>
               (Len(cs) = CODE_LENGTH /\ \A i \in 1..Len(cs) : UpperInColors(cs[i]))
        /\ (result.kind = "ok") =>
               /\ Len(result.code) = CODE_LENGTH
               /\ \A i \in 1..CODE_LENGTH :
                     /\ Contains(COLORS, result.code[i])
                     /\ <<result.code[i]>> = char_to_uppercase(cs[i])

(* an input with lower-case symbols is accepted *)
C8_Witness ==
    /\ Validated
    /\ result.kind = "ok"
    /\ result.code # chars(input)

(* C9: validate_guess reports the length mismatch whenever the upper-cased *)
(* input has not CODE_LENGTH symbols, and the unknown symbol only for      *)
(* inputs of CODE_LENGTH symbols.                                          *)
C9_LengthBySymbols ==
    Validated =>
        LET n == Len(chars(to_uppercase(input))) IN
        /\ (n # CODE_LENGTH) => (result.kind = "err_length")
        /\ (result.kind = "err_color") => (n = CODE_LENGTH)

(* C10: a code rendered to text, as it is or lower-cased, is accepted by  *)
(* validate_guess, which returns the code.                                *)
C10_RoundTrip == Validated => result = Ok(guess)

(* the lower-cased text of a code was validated *)
C10_Witness ==
    /\ Validated
    /\ input # string_from_chars(guess)
    /\ result.kind = "ok"

-----------------------------------------------------------------------------
(* the lines "quit", "QUIT" and "Quit", trimmed *)
QuitWords == {<<113, 117, 105, 116>>, <<81, 85, 73, 84>>, <<81, 117, 105, 116>>}

(* C11: "quit", in any letter case, entered at the guess prompt ends the   *)
(* session as Abandoned: the secret is revealed, the attempt counter is    *)
(* not incremented, no win and no loss is reported, and the session takes  *)
(* no further step.                                                        *)
C11_Abandon ==
    [][/\ (pc = "prompt" /\ input' \in QuitWords) =>
              /\ outcome' = "abandoned"
              /\ revealed' = secret_code
              /\ secret_code' = secret_code
              /\ attempts' = attempts
              /\ accepted' = accepted
              /\ won' = won
              /\ ~won'
              /\ pc' = "done"
       /\ (outcome = "abandoned") => UNCHANGED vars]_vars

(* "QUIT" was entered after three accepted guesses *)
C11_Witness ==
    /\ outcome = "abandoned"
    /\ input = <<81, 85, 73, 84>>
    /\ attempts = 3
    /\ revealed = secret_code

(* C12: play_round called on a session that is already won, or whose     *)
(* attempt counter is already MAX_ATTEMPTS, panics: it scores nothing and  *)
(* does not increment the counter.                                         *)
C12_TerminalSubmitPanics ==
    [][(/\ pc = "api"
        /\ accepted' = accepted + 1
        /\ (exact_scored > 0 \/ attempts >= MAX_ATTEMPTS)) =>
           /\ pc' = "panicked"
           /\ feedback' = <<>>
           /\ attempts' = attempts]_vars

(* C13: get_feedback returns no Feedback for a guess whose length is not *)
(* CODE_LENGTH: it panics for a shorter and for a longer guess.          *)
C13_MismatchedLengthPanics ==
    (feedback # <<>>) => (Len(guess) = CODE_LENGTH)

(* C14: the session keeps the history of its (guess, feedback) pairs: its *)
(* length is the attempt counter and its last entry the last accepted     *)
(* guess with the feedback scored for it.                                 *)
C14_History ==
    /\ Len(history) = attempts
    /\ (attempts > 0 /\ feedback # <<>>) =>
           history[attempts] = <<guess, feedback[1]>>

(* C15: main hands no guess to play_round once a guess of the session     *)
(* scored CODE_LENGTH exact matches or the counter is MAX_ATTEMPTS; from   *)
(* Won and Lost the only steps are the end of main and a new session.     *)
C15_NoSubmitToTerminal ==
    [][/\ (accepted' = accepted + 1) =>
              /\ exact_scored = 0
              /\ attempts < MAX_ATTEMPTS
              /\ outcome = "none"
              /\ ~won
       /\ (outcome \in {"won", "lost"}) =>
              \/ /\ pc' = "done"
                 /\ UNCHANGED <<secret_code, attempts, won, outcome, accepted,
                                exact_scored, guess, feedback>>
              \/ /\ pc = "play_again"
                 /\ pc' = "prompt"
                 /\ outcome' = "none"
                 /\ attempts' = 0
                 /\ accepted' = 0]_vars

(* a lost session after which the player declined to play again *)
C15_Witness ==
    /\ pc = "done"
    /\ outcome = "lost"
    /\ accepted = MAX_ATTEMPTS

(* C16: the attempt counter starts at 0, is incremented by exactly 1 by   *)
(* each accepted guess and by nothing else, never decreases within a      *)
(* session, and stays within 0..MAX_ATTEMPTS.                             *)
C16_AttemptCounter ==
    /\ attempts = 0
    /\ [](attempts \in 0..MAX_ATTEMPTS /\ attempts = accepted)
    /\ [][\/ attempts' = attempts /\ accepted' = accepted
          \/ /\ attempts' = attempts + 1
             /\ accepted' = accepted + 1
             /\ result'.kind = "ok"
          \/ /\ pc = "play_again"
             /\ pc' = "prompt"
             /\ attempts' = 0
             /\ accepted' = 0]_vars

(* a rejected line after seven accepted guesses *)
C16_Witness ==
    /\ attempts = 7
    /\ accepted = 7
    /\ result.kind = "err_length"

(* C17: secret_code changes only when a new session is created: every    *)
(* guess is scored against it and it is the code revealed.               *)
C17_SecretImmutable ==
    /\ [][(~(pc = "play_again" /\ pc' = "prompt")) =>
              secret_code' = secret_code]_vars
    /\ [](revealed # <<>> => revealed = secret_code)
    /\ [](feedback # <<>> => feedback[1] = get_feedback(secret_code, guess))

(* two guesses scored, then the session abandoned and the code revealed *)
C17_Witness ==
    /\ pc = "done"
    /\ outcome = "abandoned"
    /\ accepted = 2
    /\ revealed = secret_code
    /\ Len(secret_code) = CODE_LENGTH

(* C18: if the player does not enter rejected lines forever, every       *)
(* session ends as Won, Lost or Abandoned, after at most MAX_ATTEMPTS     *)
(* accepted guesses.                                                      *)
C18_Termination ==
    /\ [](accepted <= MAX_ATTEMPTS)
    /\ (outcome = "none") ~> (outcome \in {"won", "lost", "abandoned"})

(* a session ended by its MAX_ATTEMPTS-th accepted guess, rejected lines in between *)
C18_Witness ==
    /\ outcome \in {"won", "lost"}
    /\ accepted = MAX_ATTEMPTS
    /\ pc = "play_again"

(* the lines "y", "Y", "yes" and "YES" *)
YesLines ==
    {<<121, 10>>, <<89, 10>>, <<121, 101, 115, 10>>, <<89, 69, 83, 10>>}

(* a session as Game::new and main start it *)
Fresh ==
    /\ pc = "prompt"
    /\ outcome = "none"
    /\ attempts = 0
    /\ ~won
    /\ accepted = 0
    /\ exact_scored = 0
    /\ Len(secret_code) = CODE_LENGTH
    /\ \A i \in 1..CODE_LENGTH : Contains(COLORS, secret_code[i])
    /\ revealed = <<>>
    /\ result = NoResult
    /\ guess = <<>>
    /\ feedback = <<>>

(* C19: after a Won or Lost session, the answer "y" or "yes" starts a new *)
(* session: in progress, attempt counter 0, won cleared, a secret of       *)
(* CODE_LENGTH symbols of COLORS, nothing kept of the session before.      *)
C19_FreshSession ==
    [][/\ (pc = "play_again" /\ input' \in YesLines) => Fresh'
       /\ (pc = "play_again" /\ pc' = "prompt") => Fresh']_vars

(* a new session started by the answer "YES" *)
C19_Witness ==
    /\ Fresh
    /\ input = <<89, 69, 83, 10>>

(* C20: CODE_LENGTH - 1 exact matches leave no color match. *)
C20_OneLeftNoColor ==
    (Scored /\ feedback[1].exact_matches = CODE_LENGTH - 1) =>
        feedback[1].color_matches = 0

(* all positions but one agree *)
C20_Witness ==
    /\ Scored
    /\ feedback[1].exact_matches = CODE_LENGTH - 1
    /\ secret_code[1] # guess[1]
    /\ secret_code[2] = guess[1]

=============================================================================
